---- MODULE Spec2Model ----
(***************************************************************************)
(* Model of the incremental state tracker of epdoc/strava:                 *)
(*   packages/strava/src/state/state.ts   (class StateFile; the types      *)
(*                                         UserState and OutputType)       *)
(*   packages/strava/src/cmd/pdf/cmd.ts   (PdfCmd.init action handler)     *)
(*                                                                         *)
(* A process owns one StateFile (#state) over the backing file (#file).    *)
(* load, save and updateLastUpdated are async: each runs up to its next    *)
(* await in one step, and between two steps of a call the steps of other   *)
(* calls, of the same process or of another one, can take place.  The I/O  *)
(* operation a step awaits is performed in the step that issues it; its    *)
(* result is used in the step that resumes the call.                       *)
(***************************************************************************)
EXTENDS Integers, Sequences, FiniteSets, TLC

VARIABLES state, file, loading, saving, handler, last, hist

vars == <<state, file, loading, saving, handler, last, hist>>

(***************************************************************************)
(* Bounds of the model.                                                    *)
(***************************************************************************)
\* timestamps are the first MaxTime of: day 1 23:30, day 2 00:30, day 2 23:30, ...
MaxTime == 2
\* longest list of activities handed to updateLastUpdated
MaxActs == 2

(***************************************************************************)
(* Values.                                                                 *)
(*                                                                         *)
(* A JSON/JS value found under `lastUpdated` is one of                     *)
(*   kind "none" : undefined (property missing),                           *)
(*   kind "empty": the empty string,                                       *)
(*   kind "str"  : a non-empty string that is not a timestamp,             *)
(*   kind "ts"   : an ISO-8601 local timestamp  <day>T<min>  where         *)
(*                 day is the calendar date and min the minute of the day. *)
(* All timestamps of one run are rendered in the same form: either with a  *)
(* trailing UTC designator ("2024-12-01T10:00:00Z", the form of the        *)
(* examples in state.ts) or without one ("2024-12-01T23:30"); the form is  *)
(* an input of the operations that parse a timestamp.                      *)
(***************************************************************************)
OutputType == {"kml", "pdf"}

MinutesPerDay == 24 * 60

\* offsets of the host timezone from UTC, in minutes (local = UTC + offset)
HostOffsets == {0 - 60, 0, 60}

Undefined == [kind |-> "none", day |-> 0, min |-> 0]

EmptyString == [kind |-> "empty", day |-> 0, min |-> 0]

NotATimestamp == [kind |-> "str", day |-> 0, min |-> 0]

\* the t-th timestamp: two around each midnight, half an hour before and after
TimeOf(t) ==
    [kind |-> "ts", day |-> (t \div 2) + 1,
     min |-> IF t % 2 = 1 THEN MinutesPerDay - 30 ELSE 30]

Timestamps == {TimeOf(t) : t \in 1..MaxTime}

ISODate == Timestamps \cup {NotATimestamp, EmptyString}

\* !v for a value v found under lastUpdated: undefined and "" are falsy
Falsy(v) == v.kind \in {"none", "empty"}

\* an entry of UserState: the key is absent, or an object with an optional lastUpdated
NoEntry == [present |-> FALSE, lastUpdated |-> Undefined]

Entries == {NoEntry} \cup [present : {TRUE}, lastUpdated : ISODate \cup {Undefined}]

\* `other` stands for a top-level key that is neither kml nor pdf
UserState == [kml : Entries, pdf : Entries, other : BOOLEAN]

EmptyState == [kml |-> NoEntry, pdf |-> NoEntry, other |-> FALSE]

(***************************************************************************)
(* JSON text of the backing file.  A keyed record is written as the set of *)
(* its  <<key, text of the value>>  members; the text of an entry is the   *)
(* set of its <<"lastUpdated", value>> members (an undefined property is   *)
(* not written by JSON.stringify).  The whitespace of the text is not      *)
(* part of the model.                                                      *)
(***************************************************************************)
EntryText(e) ==
    IF e.lastUpdated.kind = "none" THEN {} ELSE {<<"lastUpdated", e.lastUpdated>>}

Stringify(s) ==
    {<<k, EntryText(s[k])>> : k \in {t \in OutputType : s[t].present}}
        \cup (IF s.other THEN {<<"other", {}>>} ELSE {})

ParseEntry(pairs, k) ==
    IF \E p \in pairs : p[1] = k
    THEN LET txt == (CHOOSE p \in pairs : p[1] = k)[2]
         IN  [present |-> TRUE,
              lastUpdated |-> IF txt = {} THEN Undefined
                              ELSE (CHOOSE m \in txt : m[1] = "lastUpdated")[2]]
    ELSE NoEntry

ParseDict(pairs) ==
    [kml |-> ParseEntry(pairs, "kml"),
     pdf |-> ParseEntry(pairs, "pdf"),
     other |-> \E p \in pairs : p[1] = "other"]

\* the backing file: missing, text that does not parse as JSON (the empty
\* text included), a JSON array, or a JSON keyed record
MissingFile == [kind |-> "missing", pairs |-> {}]

TextFile == [kind |-> "text", pairs |-> {}]

ArrayFile == [kind |-> "array", pairs |-> {}]

DictFile(s) == [kind |-> "dict", pairs |-> Stringify(s)]

Files == {MissingFile, TextFile, ArrayFile} \cup {DictFile(s) : s \in UserState}

Object(v) == [present |-> TRUE, lastUpdated |-> v]

\* the files a process can find when it starts: no file, text that is no JSON,
\* a JSON array, and keyed records: empty, of one or both channels, with an
\* entry that has no lastUpdated, with a lastUpdated that is no timestamp or
\* is the empty string, and with a key that is neither kml nor pdf
InitFiles ==
    {MissingFile, TextFile, ArrayFile,
     DictFile(EmptyState),
     DictFile([kml |-> Object(TimeOf(1)), pdf |-> NoEntry, other |-> FALSE]),
     DictFile([kml |-> Object(TimeOf(2)), pdf |-> Object(TimeOf(1)), other |-> FALSE]),
     DictFile([kml |-> Object(Undefined), pdf |-> Object(TimeOf(1)), other |-> FALSE]),
     DictFile([kml |-> NoEntry, pdf |-> Object(NotATimestamp), other |-> FALSE]),
     DictFile([kml |-> Object(NotATimestamp), pdf |-> Object(EmptyString), other |-> FALSE]),
     DictFile([kml |-> NoEntry, pdf |-> Object(TimeOf(2)), other |-> TRUE])}

(***************************************************************************)
(* StateFile.load                                                          *)
(*                                                                         *)
(* io names the step of load that fails: "ok" (none), "exists"             *)
(* (#file.exists() rejects) or "read" (#file.readJson() rejects on an I/O  *)
(* error; a text that does not parse rejects by its content).              *)
(***************************************************************************)
LoadFaults == {"ok", "exists", "read"}

\* load with the test for a keyed record inverted
LoadStateInverted(prev, f, readFails) ==
    IF readFails THEN EmptyState
    ELSE IF f.kind = "missing" THEN EmptyState
    ELSE IF f.kind = "text" THEN EmptyState
    ELSE IF f.kind = "dict" THEN EmptyState
    ELSE ParseDict(f.pairs)

\* load that takes a record with a key other than kml and pdf as invalid
LoadStateStrict(prev, f, readFails) ==
    IF readFails THEN EmptyState
    ELSE IF f.kind = "dict" /\ ~ParseDict(f.pairs).other THEN ParseDict(f.pairs)
    ELSE EmptyState

\* load that leaves #state as it is when it has no record to take
LoadStateKeeps(prev, f, readFails) ==
    IF readFails THEN prev
    ELSE IF f.kind = "dict" THEN ParseDict(f.pairs)
    ELSE prev

\* the value load assigns to #state; prev is #state before the assignment,
\* f the file as exists() and readJson() found it
LoadState(prev, f, readFails) ==
    IF readFails THEN EmptyState
    ELSE IF f.kind = "missing" THEN EmptyState
    ELSE IF f.kind = "text" THEN EmptyState
    ELSE IF f.kind = "dict" THEN ParseDict(f.pairs)
    ELSE EmptyState

(***************************************************************************)
(* StateFile.save                                                          *)
(*                                                                         *)
(* The writer of #file is not part of these sources.  io names what it     *)
(* does in one save: "ok" (every call succeeds and the text written        *)
(* replaces what the file held), "open" (writer() rejects), "write"        *)
(* (writer.write rejects), "close" (writer.close rejects), or "tail"       *)
(* (every call succeeds, but the writer writes in place over a longer text *)
(* and what follows the new text stays in the file).  Whether opening      *)
(* empties the file is left open.                                          *)
(***************************************************************************)
SaveFaults == {"ok", "open", "write", "close", "tail"}

\* the contents the file can have once writer() has settled: what was there
\* (writer() rejected, or the writer writes in place) or nothing (opening
\* created or emptied the file)
OpenedFiles(f, io) ==
    IF io = "open" THEN {f}
    ELSE IF f.kind = "missing" THEN {TextFile}
    ELSE IF io = "tail" THEN {f}
    ELSE {f, TextFile}

\* write that leaves the file as it was
WrittenFilesUnwritten(s, f, io) == {f}

\* of an entry in memory and the entry of the file, the one with the later
\* timestamp
MergedEntry(a, b) ==
    IF /\ b.present
       /\ b.lastUpdated.kind = "ts"
       /\ \/ a.lastUpdated.kind # "ts"
          \/ b.lastUpdated.day > a.lastUpdated.day
          \/ /\ b.lastUpdated.day = a.lastUpdated.day
             /\ b.lastUpdated.min > a.lastUpdated.min
    THEN b ELSE a

\* write that reads the file again and keeps the later timestamp of each
\* channel
WrittenFilesMerged(s, f, io) ==
    IF io = "write" THEN {f, TextFile}
    ELSE IF io = "tail" THEN {TextFile}
    ELSE LET r == LoadState(s, f, FALSE)
         IN  {DictFile([kml |-> MergedEntry(s.kml, r.kml),
                        pdf |-> MergedEntry(s.pdf, r.pdf),
                        other |-> s.other])}

\* the contents the file can have once write(content) has settled, where s is
\* #state when content was made and f the file before: the text of s; f or
\* a part of the text when write rejected; the text and a rest of f behind it
WrittenFiles(s, f, io) ==
    IF io = "write" THEN {f, TextFile}
    ELSE IF io = "tail" THEN {TextFile}
    ELSE {DictFile(s)}

\* the contents the file can have once close() of line 83 has settled
ClosedFiles(f, io) ==
    IF io = "close" THEN {f, TextFile} ELSE {f}

\* save that logs a failure and returns
SaveSwallows(io) == FALSE

\* save rethrows every failure of writer(), write() and close()
SaveThrows(io) == io \in {"open", "write", "close"}

(***************************************************************************)
(* StateFile.getLastUpdated and StateFile.getDateRangeFrom                 *)
(***************************************************************************)
\* this.#state[type]?.lastUpdated
GetLastUpdated(s, type) ==
    IF s[type].present THEN s[type].lastUpdated ELSE Undefined

\* new Date(v) for a timestamp v, as minutes since day 0 00:00 UTC: a string
\* with the UTC designator is read as UTC, one without it as host-local time
NewDate(v, tz, utc) ==
    IF utc THEN v.day * MinutesPerDay + v.min
    ELSE v.day * MinutesPerDay + v.min - tz

\* date.toISOString().split('T')[0]: the calendar date of the instant in UTC
ToISODatePart(instant) == instant \div MinutesPerDay

\* date ranges: none, "from" a calendar date (inclusive) to now, "after" an
\* instant to now, "invalid" (after an Invalid Date), or the ranges of --date
NoRange == [kind |-> "undefined", bound |-> 0]

FromDateRange(d) == [kind |-> "from", bound |-> d]

AfterRange(instant) == [kind |-> "after", bound |-> instant]

InvalidRange == [kind |-> "invalid", bound |-> 0]

OptsRange == [kind |-> "opts", bound |-> 0]

\* toISOString throws a RangeError on an Invalid Date
GetDateRangeFromThrows(s, type) == GetLastUpdated(s, type).kind = "str"

GetDateRangeFrom(s, type, tz, utc) ==
    LET lastUpdated == GetLastUpdated(s, type)
    IN  IF Falsy(lastUpdated) THEN NoRange
        ELSE IF lastUpdated.kind = "str" THEN NoRange
        ELSE FromDateRange(ToISODatePart(NewDate(lastUpdated, tz, utc)))

(***************************************************************************)
(* StateFile.updateLastUpdated                                             *)
(***************************************************************************)
\* a >= b in place of a > b
StrGE(a, b) == a.day > b.day \/ (a.day = b.day /\ a.min >= b.min)

\* a > b on two timestamp strings of the same form
StrGT(a, b) == a.day > b.day \/ (a.day = b.day /\ a.min > b.min)

\* the loop over activities; best is the index of mostRecent, 0 when undefined
RECURSIVE MostRecentFrom(_, _, _)
MostRecentFrom(acts, i, best) ==
    IF i > Len(acts) THEN best
    ELSE MostRecentFrom(acts, i + 1,
                        IF best = 0 \/ StrGT(acts[i], acts[best]) THEN i ELSE best)

MostRecent(acts) == MostRecentFrom(acts, 1, 0)

\* save called whether or not there are activities
SaveAlways(acts) == TRUE

\* whether the call reaches this.save(ctx)
SaveInvoked(acts) == Len(acts) # 0 /\ MostRecent(acts) # 0

\* #state rebuilt with the updated channel alone
UpdatedStateOnly(s, type, acts) ==
    IF Len(acts) = 0 THEN s
    ELSE [EmptyState EXCEPT ![type] = [present |-> TRUE,
                                       lastUpdated |-> acts[MostRecent(acts)]]]

\* one entry object shared by the channels
UpdatedStateShared(s, type, acts) ==
    IF Len(acts) = 0 THEN s
    ELSE [s EXCEPT !.kml = [present |-> TRUE, lastUpdated |-> acts[MostRecent(acts)]],
                   !.pdf = [present |-> TRUE, lastUpdated |-> acts[MostRecent(acts)]]]

\* the watermark clamped to max(current, computed)
UpdatedStateClamped(s, type, acts) ==
    IF Len(acts) = 0 THEN s
    ELSE IF /\ GetLastUpdated(s, type).kind = "ts"
            /\ ~StrGT(acts[MostRecent(acts)], GetLastUpdated(s, type))
         THEN s
    ELSE [s EXCEPT ![type] = [present |-> TRUE,
                              lastUpdated |-> acts[MostRecent(acts)]]]

\* #state once updateLastUpdated has assigned lastUpdated (line 176)
UpdatedState(s, type, acts) ==
    IF Len(acts) = 0 THEN s
    ELSE IF MostRecent(acts) = 0 THEN s
    ELSE [s EXCEPT ![type] = [present |-> TRUE,
                              lastUpdated |-> acts[MostRecent(acts)]]]

(***************************************************************************)
(* PdfCmd action handler                                                   *)
(***************************************************************************)
\* ctx.app.athlete when the handler reaches line 104: set ("loaded"), unset
\* with getAthlete resolving ("fetched") or unset with getAthlete rejecting
Athletes == {"loaded", "fetched", "rejects"}

\* the DateRanges of a run without --date: { after: new Date(lastUpdated) }
PdfDateRanges(lastUpdated, tz, utc) ==
    IF lastUpdated.kind = "ts" THEN AfterRange(NewDate(lastUpdated, tz, utc))
    ELSE InvalidRange

\* the handler without the exit of a first run
PdfOutcomeNoExit(s, initOk, date, output, athlete) ==
    IF ~initOk THEN "threw"
    ELSE IF ~output THEN "exit"
    ELSE IF athlete = "rejects" THEN "threw"
    ELSE "getPdf"

\* "threw": app.init or getAthlete rejected; "exit": Deno.exit(1); "getPdf":
\* getPdf was called
PdfOutcome(s, initOk, date, output, athlete) ==
    IF ~initOk THEN "threw"
    ELSE IF ~date /\ Falsy(GetLastUpdated(s, "pdf")) THEN "exit"
    ELSE IF ~output THEN "exit"
    ELSE IF athlete = "rejects" THEN "threw"
    ELSE "getPdf"

\* the date ranges handed to getPdf
PdfRange(s, date, tz, utc) ==
    IF date THEN OptsRange
    ELSE PdfDateRanges(GetLastUpdated(s, "pdf"), tz, utc)

\* an activity starting at instant is in the ranges r, as getPdf is to take
\* them: a range { after } holds what starts after the instant, up to now
InRange(r, instant) ==
    /\ r.kind = "after"
    /\ instant > r.bound

(***************************************************************************)
(* The state machine.                                                      *)
(*                                                                         *)
(* state[p] is #state of the StateFile of process p and file the content   *)
(* of the backing file, which the processes share.                         *)
(*                                                                         *)
(* loading[p] is the call of load that p has in flight: pc is the await    *)
(* it is suspended at ("exists", "readJson") or "idle"; io the fault       *)
(* injected; exists and raw what exists() and readJson() found.            *)
(*                                                                         *)
(* saving[p] is the call of save, direct or from updateLastUpdated (via),  *)
(* that p has in flight: pc is the await it is suspended at ("writer",     *)
(* "write", "close" of line 83, "cleanup" for the close of line 86) or     *)
(* "idle"; type and pick are the channel of updateLastUpdated and the      *)
(* index its loop chose (0: no activities); io is what the writer does.    *)
(* A process has at most one load and one save in flight.                  *)
(*                                                                         *)
(* handler[p] is the run of the action handler of the pdf command in p: pc *)
(* is the await it is suspended at ("init" for app.init of line 65,        *)
(* "athlete" for getAthlete of line 105, "getPdf" for getPdf of line 115), *)
(* "idle", or "exited" once the handler has called Deno.exit: the process  *)
(* is gone and takes no further step.  initOk, date and output are what    *)
(* app.init does and the options of the run; athlete, tz and utc what the  *)
(* handler finds when app.init has settled; lastUpdated is what line 75    *)
(* read and range the date ranges made for getPdf.                         *)
(*                                                                         *)
(* last is the step taken last: the action (op), the process (p), the call *)
(* the step belongs to (via, type, pick, io), how the call ended if the    *)
(* step ended it (ended: "returned", "threw", or "exit" for Deno.exit),    *)
(* for load the file it found (found), for updateLastUpdated the           *)
(* chronologically latest start among the activities (newest), for         *)
(* getDateRangeFrom its inputs and result.                                 *)
(*                                                                         *)
(* hist is what a specification keeps of the past; see Kept.               *)
(***************************************************************************)
Activities == UNION {[1..n -> Timestamps] : n \in 0..MaxActs}

\* the lists of activities of the calls whose list is not looked into: none,
\* or one activity
Batches == {<<>>} \cup {<<t>> : t \in Timestamps}

\* minutes from day 0 00:00 to the local time a timestamp names
LocalMinutes(t) == t.day * MinutesPerDay + t.min

\* the latest local start among the activities, none for no activities
Newest(acts) ==
    IF acts = <<>> THEN Undefined
    ELSE CHOOSE t \in {acts[i] : i \in 1..Len(acts)} :
           \A i \in 1..Len(acts) : LocalMinutes(acts[i]) <= LocalMinutes(t)

NotLoading == [pc |-> "idle", io |-> "ok", exists |-> FALSE, raw |-> MissingFile]

NotSaving == [pc |-> "idle", via |-> "save", type |-> "kml", pick |-> 0, io |-> "ok"]

NotHandling ==
    [pc |-> "idle", initOk |-> TRUE, date |-> FALSE, output |-> FALSE,
     athlete |-> "loaded", tz |-> 0, utc |-> FALSE, lastUpdated |-> Undefined,
     range |-> NoRange]

NoCall ==
    [op |-> "new", p |-> 1, via |-> "", type |-> "kml", pick |-> 0,
     newest |-> Undefined, io |-> "ok", found |-> MissingFile, ended |-> "",
     tz |-> 0, utc |-> FALSE, range |-> NoRange]

LoadInFlight(p) == loading[p].pc # "idle"

SaveInFlight(p) == saving[p].pc # "idle"

\* the step op of the call of load that p has in flight
LoadStep(op, p, found, ended) ==
    [NoCall EXCEPT !.op = op, !.p = p, !.via = "load", !.io = loading[p].io,
                   !.found = found, !.ended = ended]

\* the step op of the call of save that p has in flight
SaveStep(op, p, ended) ==
    [NoCall EXCEPT !.op = op, !.p = p, !.via = saving[p].via,
                   !.type = saving[p].type, !.pick = saving[p].pick,
                   !.io = saving[p].io, !.ended = ended]

\* how a save with the writer doing io ends
SaveEnd(io) == IF SaveThrows(io) THEN "threw" ELSE "returned"

(***************************************************************************)
(* What a specification keeps of the past, by hist.mode:                   *)
(*   "off"   : nothing;                                                    *)
(*   "select": the one call of updateLastUpdated that is made (type, acts) *)
(*             and, from before it, #state (before), what                  *)
(*             getLastUpdated(type) returned (was) and the file (old);     *)
(*   "step"  : the summary of the calls of the process (run): "fresh"      *)
(*             (none has loaded or saved), "insync" (one has, each call    *)
(*             ended before the next began and the I/O of none met a       *)
(*             fault), "broken" (calls overlapped or one met a fault);     *)
(*   "race"  : how far each process is (phase: "new", "loaded" once its    *)
(*             load has ended, "updating", and "updated" or "failed" once  *)
(*             its updateLastUpdated has), the file its load found (old),  *)
(*             whether every load had ended when the first                 *)
(*             updateLastUpdated began (early), and the process whose      *)
(*             write was performed last (writer, 0: none).                 *)
(* ev is the step being taken, wrote whether it performed a write.         *)
(***************************************************************************)
NoHist == [mode |-> "off"]

StepKept(ev, overlaps) ==
    [hist EXCEPT !.run =
        IF @ = "broken" THEN @
        ELSE IF overlaps THEN "broken"
        ELSE IF ev.ended = "" THEN @
        ELSE IF ev.io # "ok" THEN "broken"
        ELSE IF ev.via = "update" /\ ev.pick = 0 THEN @
        ELSE "insync"]

RaceKept(ev, wrote) ==
    [hist EXCEPT
        !.phase[ev.p] =
            IF ev.via = "load" /\ ev.ended # "" THEN "loaded"
            ELSE IF ev.via = "update" /\ ev.ended = "returned" /\ ev.pick # 0
                 THEN "updated"
            ELSE IF ev.via = "update" /\ ev.ended # "" THEN "failed"
            ELSE IF ev.via = "update" THEN "updating"
            ELSE @,
        !.old[ev.p] = IF ev.via = "load" /\ ev.ended # "" THEN ev.found ELSE @,
        !.early = IF ev.op = "UpdateLastUpdated"
                  THEN @ /\ \A q \in DOMAIN state : hist.phase[q] # "new"
                  ELSE @,
        !.writer = IF wrote THEN ev.p ELSE @]

Kept(ev, overlaps, wrote) ==
    IF hist.mode = "step" THEN StepKept(ev, overlaps)
    ELSE IF hist.mode = "race" THEN RaceKept(ev, wrote)
    ELSE hist

\* the step ev is taken
Record(ev, overlaps, wrote) ==
    /\ last' = ev
    /\ hist' = Kept(ev, overlaps, wrote)

(***************************************************************************)
(* The steps of the calls.                                                 *)
(***************************************************************************)
\* the process p has not called Deno.exit
Running(p) == handler[p].pc # "exited"

\* a new process in the place of p constructs its StateFile: #state = {}
Construct(p) ==
    /\ last.op # "new"
    /\ state' = [state EXCEPT ![p] = EmptyState]
    /\ loading' = [loading EXCEPT ![p] = NotLoading]
    /\ saving' = [saving EXCEPT ![p] = NotSaving]
    /\ handler' = [handler EXCEPT ![p] = NotHandling]
    /\ last' = NoCall
    /\ UNCHANGED <<file, hist>>

\* load(ctx) is called with the fault io and runs to
\* `await this.#file.exists()`
LoadCall(p, io) ==
    /\ Running(p)
    /\ io = "read" => file.kind # "missing"
    /\ loading' = [loading EXCEPT ![p] =
                     [pc |-> "exists", io |-> io,
                      exists |-> io # "exists" /\ file.kind # "missing",
                      raw |-> MissingFile]]
    /\ Record([NoCall EXCEPT !.op = "Load", !.p = p, !.via = "load", !.io = io],
              LoadInFlight(p) \/ SaveInFlight(p), FALSE)
    /\ UNCHANGED <<state, file, saving, handler>>

Load(p) ==
    /\ Running(p)
    /\ ~LoadInFlight(p)
    /\ \E io \in LoadFaults : LoadCall(p, io)

\* exists() has settled: load ends with the empty state (lines 62-63, 66-68)
\* or runs to `await this.#file.readJson()`
LoadExists(p) ==
    /\ Running(p)
    /\ loading[p].pc = "exists"
    /\ IF loading[p].exists
       THEN /\ loading' = [loading EXCEPT ![p].pc = "readJson", ![p].raw = file]
            /\ Record(LoadStep("LoadExists", p, MissingFile, ""), FALSE, FALSE)
            /\ UNCHANGED state
       ELSE /\ state' = [state EXCEPT ![p] =
                           LoadState(state[p], MissingFile, loading[p].io = "exists")]
            /\ loading' = [loading EXCEPT ![p] = NotLoading]
            /\ Record(LoadStep("LoadExists", p, MissingFile, "returned"), FALSE, FALSE)
    /\ UNCHANGED <<file, saving, handler>>

\* readJson() has settled: load assigns #state (lines 54-60, 66-68) and ends
LoadReadJson(p) ==
    /\ Running(p)
    /\ loading[p].pc = "readJson"
    /\ state' = [state EXCEPT ![p] =
                   LoadState(state[p], loading[p].raw, loading[p].io = "read")]
    /\ loading' = [loading EXCEPT ![p] = NotLoading]
    /\ Record(LoadStep("LoadReadJson", p, loading[p].raw, "returned"), FALSE, FALSE)
    /\ UNCHANGED <<file, saving, handler>>

\* save(ctx) is entered, for updateLastUpdated (via, type, pick) or directly,
\* and runs to `await this.#file.writer()`
SaveBy(p, via, type, pick, io) ==
    /\ io = "tail" => file.kind # "missing"
    /\ file' \in OpenedFiles(file, io)
    /\ saving' = [saving EXCEPT ![p] =
                    [pc |-> "writer", via |-> via, type |-> type, pick |-> pick,
                     io |-> io]]

\* save(ctx) is called
Save(p) ==
    /\ Running(p)
    /\ ~SaveInFlight(p)
    /\ \E io \in SaveFaults :
         /\ SaveBy(p, "save", "kml", 0, io)
         /\ Record([NoCall EXCEPT !.op = "Save", !.p = p, !.via = "save", !.io = io],
                   LoadInFlight(p), FALSE)
    /\ UNCHANGED <<state, loading, handler>>

\* writer() has settled: save throws (lines 89-92) or makes the text of
\* #state and runs to `await writer.write(content)`
SaveWriter(p) ==
    /\ Running(p)
    /\ saving[p].pc = "writer"
    /\ IF saving[p].io = "open"
       THEN /\ saving' = [saving EXCEPT ![p] = NotSaving]
            /\ Record(SaveStep("SaveWriter", p, SaveEnd(saving[p].io)), FALSE, FALSE)
            /\ UNCHANGED file
       ELSE /\ file' \in WrittenFiles(state[p], file, saving[p].io)
            /\ saving' = [saving EXCEPT ![p].pc = "write"]
            /\ Record(SaveStep("SaveWriter", p, ""), FALSE, TRUE)
    /\ UNCHANGED <<state, loading, handler>>

\* write() has settled: save runs to `await writer.close()` of line 83 or,
\* when write rejected, of line 86
SaveWrite(p) ==
    /\ Running(p)
    /\ saving[p].pc = "write"
    /\ IF saving[p].io = "write"
       THEN /\ saving' = [saving EXCEPT ![p].pc = "cleanup"]
            /\ UNCHANGED file
       ELSE /\ file' \in ClosedFiles(file, saving[p].io)
            /\ saving' = [saving EXCEPT ![p].pc = "close"]
    /\ Record(SaveStep("SaveWrite", p, ""), FALSE, FALSE)
    /\ UNCHANGED <<state, loading, handler>>

\* close() of line 83 has settled: save returns or, when close rejected, runs
\* to `await writer.close()` of line 86
SaveClose(p) ==
    /\ Running(p)
    /\ saving[p].pc = "close"
    /\ IF saving[p].io = "close"
       THEN /\ saving' = [saving EXCEPT ![p].pc = "cleanup"]
            /\ Record(SaveStep("SaveClose", p, ""), FALSE, FALSE)
       ELSE /\ saving' = [saving EXCEPT ![p] = NotSaving]
            /\ Record(SaveStep("SaveClose", p, "returned"), FALSE, FALSE)
    /\ UNCHANGED <<state, file, loading, handler>>

\* close() of line 86 has settled: save throws (lines 87, 89-92)
SaveCleanup(p) ==
    /\ Running(p)
    /\ saving[p].pc = "cleanup"
    /\ saving' = [saving EXCEPT ![p] = NotSaving]
    /\ Record(SaveStep("SaveCleanup", p, SaveEnd(saving[p].io)), FALSE, FALSE)
    /\ UNCHANGED <<state, file, loading, handler>>

\* updateLastUpdated(ctx, type, acts) is called, with io what the writer of
\* its save does: it returns at once (lines 156-159) or assigns lastUpdated
\* and enters save
Update(p, type, acts, io) ==
    /\ Running(p)
    /\ ~SaveInvoked(acts) => io = "ok"
    /\ state' = [state EXCEPT ![p] = UpdatedState(state[p], type, acts)]
    /\ IF SaveInvoked(acts)
       THEN SaveBy(p, "update", type, MostRecent(acts), io)
       ELSE UNCHANGED <<file, saving>>
    /\ Record([NoCall EXCEPT !.op = "UpdateLastUpdated", !.p = p, !.via = "update",
                             !.type = type, !.pick = MostRecent(acts),
                             !.newest = Newest(acts), !.io = io,
                             !.ended = IF SaveInvoked(acts) THEN "" ELSE "returned"],
              LoadInFlight(p), FALSE)
    /\ UNCHANGED <<loading, handler>>

UpdateLastUpdated(p) ==
    /\ Running(p)
    /\ ~SaveInFlight(p)
    /\ \E type \in OutputType, acts \in Batches, io \in SaveFaults :
         Update(p, type, acts, io)

(***************************************************************************)
(* One process that calls load, save and updateLastUpdated without         *)
(* waiting for the call before to end, and that a new process can replace  *)
(* at any time.                                                            *)
(***************************************************************************)
Solo == {1}

\* the files of InitFiles with no key besides kml and pdf and with a
\* timestamp in every entry
PlainFiles ==
    {f \in InitFiles :
        f.kind = "dict" =>
            /\ ~ParseDict(f.pairs).other
            /\ \A c \in OutputType :
                   ParseDict(f.pairs)[c].present =>
                       ParseDict(f.pairs)[c].lastUpdated.kind = "ts"}

Init ==
    /\ state = [p \in Solo |-> EmptyState]
    /\ file \in PlainFiles
    /\ loading = [p \in Solo |-> NotLoading]
    /\ saving = [p \in Solo |-> NotSaving]
    /\ handler = [p \in Solo |-> NotHandling]
    /\ last = NoCall
    /\ hist = NoHist

Next ==
    \/ \E p \in DOMAIN state : Construct(p)
    \/ \E p \in DOMAIN state : Load(p)
    \/ \E p \in DOMAIN state : LoadExists(p)
    \/ \E p \in DOMAIN state : LoadReadJson(p)
    \/ \E p \in DOMAIN state : Save(p)
    \/ \E p \in DOMAIN state : SaveWriter(p)
    \/ \E p \in DOMAIN state : SaveWrite(p)
    \/ \E p \in DOMAIN state : SaveClose(p)
    \/ \E p \in DOMAIN state : SaveCleanup(p)
    \/ \E p \in DOMAIN state : UpdateLastUpdated(p)

Spec == Init /\ [][Next]_vars

(***************************************************************************)
(* One process that calls load and getDateRangeFrom and runs the handler of *)
(* the pdf command, over any of the files it can find.  The steps of load  *)
(* and of the handler interleave; once the handler has called Deno.exit    *)
(* only a new process takes steps.  None of these operations writes the    *)
(* file, and the runs of this specification are those in which no other    *)
(* run of the program writes it meanwhile.                                 *)
(***************************************************************************)
GetDateRange(p) ==
    /\ Running(p)
    /\ \E type \in OutputType, tz \in HostOffsets, utc \in BOOLEAN :
         /\ GetLastUpdated(state[p], type).kind # "ts" => (tz = 0 /\ ~utc)
         /\ Record([NoCall EXCEPT
                      !.op = "GetDateRangeFrom", !.p = p, !.via = "range",
                      !.type = type, !.tz = tz, !.utc = utc,
                      !.ended = IF GetDateRangeFromThrows(state[p], type)
                                THEN "threw" ELSE "returned",
                      !.range = IF GetDateRangeFromThrows(state[p], type)
                                THEN NoRange
                                ELSE GetDateRangeFrom(state[p], type, tz, utc)],
                   FALSE, FALSE)
    /\ UNCHANGED <<state, file, loading, saving, handler>>

\* a step of the handler of the pdf command in p
PdfStep(op, p, io, ended) ==
    [NoCall EXCEPT !.op = op, !.p = p, !.via = "pdf", !.type = "pdf", !.io = io,
                   !.ended = ended]

\* the action handler of the pdf command is run with the options date and
\* output, and runs to `await ctx.app.init(...)`
PdfCmd(p) ==
    /\ Running(p)
    /\ handler[p].pc = "idle"
    /\ \E initOk \in BOOLEAN, date \in BOOLEAN, output \in BOOLEAN :
         /\ handler' = [handler EXCEPT ![p] =
                          [NotHandling EXCEPT !.pc = "init", !.initOk = initOk,
                                              !.date = date, !.output = output]]
         /\ Record(PdfStep("PdfCmd", p, IF initOk THEN "ok" ELSE "init", ""),
                   FALSE, FALSE)
    /\ UNCHANGED <<state, file, loading, saving>>

\* app.init has settled: the handler throws (lines 116-120), exits (lines 83,
\* 100), runs to `await ctx.app.getAthlete(ctx)` or, with the athlete
\* loaded, calls getPdf and runs to its await
PdfInit(p) ==
    /\ Running(p)
    /\ handler[p].pc = "init"
    /\ \E athlete \in Athletes, tz \in HostOffsets, utc \in BOOLEAN :
         LET h == handler[p]
             outcome == PdfOutcome(state[p], h.initOk, h.date, h.output, "loaded")
             lastUpdated == IF h.date THEN Undefined
                            ELSE GetLastUpdated(state[p], "pdf")
         IN  /\ outcome # "getPdf" => athlete = "loaded"
             /\ (outcome # "getPdf" \/ lastUpdated.kind # "ts") => (tz = 0 /\ ~utc)
             /\ IF outcome # "getPdf"
                THEN /\ handler' = [handler EXCEPT ![p] =
                                      IF outcome = "exit"
                                      THEN [NotHandling EXCEPT !.pc = "exited"]
                                      ELSE NotHandling]
                     /\ Record(PdfStep("PdfInit", p,
                                       IF h.initOk THEN "ok" ELSE "init", outcome),
                               FALSE, FALSE)
                ELSE /\ handler' = [handler EXCEPT ![p] =
                                      [h EXCEPT !.pc = IF athlete = "loaded"
                                                       THEN "getPdf" ELSE "athlete",
                                                !.athlete = athlete,
                                                !.tz = tz, !.utc = utc,
                                                !.lastUpdated = lastUpdated,
                                                !.range = PdfRange(state[p], h.date,
                                                                   tz, utc)]]
                     /\ Record(PdfStep("PdfInit", p, "ok", ""), FALSE, FALSE)
    /\ UNCHANGED <<state, file, loading, saving>>

\* getAthlete has settled: the handler throws or calls getPdf with the date
\* ranges it made before line 104 and runs to `await ctx.app.getPdf(...)`
PdfAthlete(p) ==
    /\ Running(p)
    /\ handler[p].pc = "athlete"
    /\ IF PdfOutcome(state[p], TRUE, TRUE, TRUE, handler[p].athlete) = "threw"
       THEN /\ handler' = [handler EXCEPT ![p] = NotHandling]
            /\ Record(PdfStep("PdfAthlete", p, "athlete", "threw"), FALSE, FALSE)
       ELSE /\ handler' = [handler EXCEPT ![p].pc = "getPdf"]
            /\ Record(PdfStep("PdfAthlete", p, "ok", ""), FALSE, FALSE)
    /\ UNCHANGED <<state, file, loading, saving>>

\* getPdf has settled: the handler returns or throws what getPdf threw
PdfGetPdf(p) ==
    /\ Running(p)
    /\ handler[p].pc = "getPdf"
    /\ handler' = [handler EXCEPT ![p] = NotHandling]
    /\ \E ok \in BOOLEAN :
         Record(PdfStep("PdfGetPdf", p, IF ok THEN "ok" ELSE "getPdf",
                        IF ok THEN "returned" ELSE "threw"),
                FALSE, FALSE)
    /\ UNCHANGED <<state, file, loading, saving>>

InitQuery ==
    /\ state = [p \in Solo |-> EmptyState]
    /\ file \in InitFiles
    /\ loading = [p \in Solo |-> NotLoading]
    /\ saving = [p \in Solo |-> NotSaving]
    /\ handler = [p \in Solo |-> NotHandling]
    /\ last = NoCall
    /\ hist = NoHist

NextQuery ==
    \/ \E p \in DOMAIN state : Construct(p)
    \/ \E p \in DOMAIN state : Load(p)
    \/ \E p \in DOMAIN state : LoadExists(p)
    \/ \E p \in DOMAIN state : LoadReadJson(p)
    \/ \E p \in DOMAIN state : GetDateRange(p)
    \/ \E p \in DOMAIN state : PdfCmd(p)
    \/ \E p \in DOMAIN state : PdfInit(p)
    \/ \E p \in DOMAIN state : PdfAthlete(p)
    \/ \E p \in DOMAIN state : PdfGetPdf(p)

SpecQuery == InitQuery /\ [][NextQuery]_vars

(***************************************************************************)
(* updateLastUpdated as a function of its arguments: a process that has    *)
(* loaded its state from the file, as the file is or as it was before a    *)
(* save of another run changed it, or has constructed its StateFile and    *)
(* not loaded, makes one call, with any list of activities, and the call   *)
(* runs to its end.                                                        *)
(***************************************************************************)
InitSelect ==
    /\ file \in InitFiles
    /\ \E f \in InitFiles :
         \E s \in {EmptyState, LoadState(EmptyState, f, FALSE)} :
             state = [p \in Solo |-> s]
    /\ loading = [p \in Solo |-> NotLoading]
    /\ saving = [p \in Solo |-> NotSaving]
    /\ handler = [p \in Solo |-> NotHandling]
    /\ last = NoCall
    /\ \E type \in OutputType, acts \in Activities :
         hist = [mode |-> "select", type |-> type, acts |-> acts,
                 before |-> state[1], was |-> GetLastUpdated(state[1], type),
                 old |-> file]

ApplyUpdate(p) ==
    /\ last.op = "new"
    /\ \E io \in SaveFaults : Update(p, hist.type, hist.acts, io)

NextSelect ==
    \/ \E p \in DOMAIN state : ApplyUpdate(p)
    \/ \E p \in DOMAIN state : SaveWriter(p)
    \/ \E p \in DOMAIN state : SaveWrite(p)
    \/ \E p \in DOMAIN state : SaveClose(p)
    \/ \E p \in DOMAIN state : SaveCleanup(p)

SpecSelect == InitSelect /\ [][NextSelect]_vars

(***************************************************************************)
(* One process that only calls load and updateLastUpdated, with the        *)
(* summary of its calls kept in hist.run.                                  *)
(***************************************************************************)
\* the files of the process: none, and records of one and of both channels,
\* one of them with a key besides kml and pdf
StepFiles ==
    {MissingFile,
     DictFile([kml |-> Object(TimeOf(1)), pdf |-> NoEntry, other |-> FALSE]),
     DictFile([kml |-> Object(TimeOf(2)), pdf |-> Object(TimeOf(1)), other |-> FALSE]),
     DictFile([kml |-> NoEntry, pdf |-> Object(TimeOf(2)), other |-> TRUE])}

InitStep ==
    /\ state = [p \in Solo |-> EmptyState]
    /\ file \in StepFiles
    /\ loading = [p \in Solo |-> NotLoading]
    /\ saving = [p \in Solo |-> NotSaving]
    /\ handler = [p \in Solo |-> NotHandling]
    /\ last = NoCall
    /\ hist = [mode |-> "step", run |-> "fresh"]

NextStep ==
    \/ \E p \in DOMAIN state : Load(p)
    \/ \E p \in DOMAIN state : LoadExists(p)
    \/ \E p \in DOMAIN state : LoadReadJson(p)
    \/ \E p \in DOMAIN state : UpdateLastUpdated(p)
    \/ \E p \in DOMAIN state : SaveWriter(p)
    \/ \E p \in DOMAIN state : SaveWrite(p)
    \/ \E p \in DOMAIN state : SaveClose(p)
    \/ \E p \in DOMAIN state : SaveCleanup(p)

SpecStep == InitStep /\ [][NextStep]_vars

(***************************************************************************)
(* Two processes over one backing file.  Each constructs its StateFile,    *)
(* calls load, and then calls updateLastUpdated once with an activity, the *)
(* first process for kml and the second for pdf; the steps of their calls  *)
(* interleave in any order.  The writer replaces the content of the file   *)
(* or rejects the write.                                                   *)
(***************************************************************************)
Procs == {1, 2}

Channel(p) == IF p = 1 THEN "kml" ELSE "pdf"

RaceFaults == {"ok", "write"}

InitRace ==
    /\ state = [p \in Procs |-> EmptyState]
    /\ file \in PlainFiles
    /\ loading = [p \in Procs |-> NotLoading]
    /\ saving = [p \in Procs |-> NotSaving]
    /\ handler = [p \in Procs |-> NotHandling]
    /\ last = NoCall
    /\ hist = [mode |-> "race", phase |-> [p \in Procs |-> "new"],
               old |-> [p \in Procs |-> MissingFile], early |-> TRUE, writer |-> 0]

RaceLoad(p) ==
    /\ hist.phase[p] = "new"
    /\ ~LoadInFlight(p)
    /\ LoadCall(p, "ok")

RaceUpdate(p) ==
    /\ hist.phase[p] = "loaded"
    /\ \E acts \in Batches \ {<<>>}, io \in RaceFaults : Update(p, Channel(p), acts, io)

NextRace ==
    \/ \E p \in DOMAIN state : RaceLoad(p)
    \/ \E p \in DOMAIN state : LoadExists(p)
    \/ \E p \in DOMAIN state : LoadReadJson(p)
    \/ \E p \in DOMAIN state : RaceUpdate(p)
    \/ \E p \in DOMAIN state : SaveWriter(p)
    \/ \E p \in DOMAIN state : SaveWrite(p)
    \/ \E p \in DOMAIN state : SaveClose(p)
    \/ \E p \in DOMAIN state : SaveCleanup(p)

SpecRace == InitRace /\ [][NextRace]_vars

(***************************************************************************)
(* Properties.  In the specifications of one process, that process is 1.   *)
(***************************************************************************)
\* what a fresh StateFile at the same path reports after load
FreshLastUpdated(f, type) == GetLastUpdated(LoadState(EmptyState, f, FALSE), type)

\* the index of the first activity that has the latest start
FirstNewest(acts) ==
    CHOOSE i \in 1..Len(acts) :
        /\ acts[i] = Newest(acts)
        /\ \A j \in 1..(i - 1) : acts[j] # Newest(acts)

\* the step taken last ended a call of updateLastUpdated that had activities,
\* or a call of save
SaveEnded ==
    /\ last.ended \in {"returned", "threw"}
    /\ \/ last.via = "save"
       \/ last.via = "update" /\ last.pick # 0

\* C1: after updateLastUpdated(c, activities) with a non-empty list has
\* returned, getLastUpdated(c) is the latest startDatetimeLocal of the list,
\* taken from the first activity that has it, and, the writer having replaced
\* the content of the file, the backing file holds the whole in-memory state.
C1_WatermarkSelection ==
    (SaveEnded /\ last.ended = "returned") =>
        /\ last.pick = FirstNewest(hist.acts)
        /\ GetLastUpdated(state[1], hist.type) = Newest(hist.acts)
        /\ last.io = "ok" =>
               /\ file.kind = "dict"
               /\ ParseDict(file.pairs) = state[1]

C1_Witness ==
    /\ SaveEnded
    /\ last.ended = "returned"
    /\ last.io = "ok"
    /\ hist.acts = <<TimeOf(1), TimeOf(2)>>
    /\ GetLastUpdated(state[1], hist.type) = TimeOf(2)
    /\ file = DictFile(state[1])

\* C2: updateLastUpdated(c, []) changes neither the in-memory state nor the
\* backing file and does not enter save.
C2_EmptyIsNoOp ==
    [][(last'.op = "UpdateLastUpdated" /\ last'.pick = 0) =>
          (state' = state /\ file' = file /\ saving' = saving)]_vars

C2_Witness ==
    /\ last.op = "UpdateLastUpdated"
    /\ last.pick = 0
    /\ last.ended = "returned"
    /\ GetLastUpdated(state[1], "kml").kind = "ts"
    /\ FreshLastUpdated(file, "kml") # GetLastUpdated(state[1], "kml")

\* the call of updateLastUpdated that is made has reached its save
Updating == last.via = "update" /\ last.pick # 0

\* C3 as stated: updateLastUpdated on one channel leaves the lastUpdated of
\* the other channel unchanged in memory, and the file its save has written
\* (the writer replacing the content) holds for the other channel what the
\* file held before the call.
C3_ChannelsIndependent ==
    Updating =>
        \A d \in OutputType \ {hist.type} :
            /\ GetLastUpdated(state[1], d) = GetLastUpdated(hist.before, d)
            /\ (last.ended = "returned" /\ last.io = "ok") =>
                   FreshLastUpdated(file, d) = FreshLastUpdated(hist.old, d)

\* C3 amended: updateLastUpdated on one channel leaves the lastUpdated of the
\* other channel unchanged in memory, and the file its save has written (the
\* writer replacing the content) holds for the other channel the lastUpdated
\* that is in memory: what the file held before the call when memory and
\* file agreed on that channel before the call.
C3_OtherChannelAsInMemory ==
    Updating =>
        \A d \in OutputType \ {hist.type} :
            /\ GetLastUpdated(state[1], d) = GetLastUpdated(hist.before, d)
            /\ (last.ended = "returned" /\ last.io = "ok") =>
                   /\ FreshLastUpdated(file, d) = GetLastUpdated(hist.before, d)
                   /\ FreshLastUpdated(hist.old, d) = GetLastUpdated(hist.before, d) =>
                          FreshLastUpdated(file, d) = FreshLastUpdated(hist.old, d)

C3_Witness ==
    /\ Updating
    /\ last.ended = "returned"
    /\ last.io = "ok"
    /\ hist.type = "pdf"
    /\ hist.was = TimeOf(1)
    /\ FreshLastUpdated(hist.old, "kml") = TimeOf(2)
    /\ GetLastUpdated(hist.before, "kml") = TimeOf(2)
    /\ GetLastUpdated(state[1], "pdf") = TimeOf(2)
    /\ GetLastUpdated(state[1], "kml") = TimeOf(2)
    /\ FreshLastUpdated(file, "kml") = TimeOf(2)

\* C4: a save whose writer replaces the content of the file writes a text
\* from which load on a fresh StateFile at the same path (its read not
\* failing) reports, for every channel that has a lastUpdated in memory, that
\* same lastUpdated; the text stays in the file until save has returned.
C4_RoundTrip ==
    [][/\ (last'.op = "SaveWriter" /\ last'.io = "ok") =>
              \A c \in OutputType :
                  GetLastUpdated(state[1], c).kind # "none" =>
                      FreshLastUpdated(file', c) = GetLastUpdated(state[1], c)
       /\ (last'.op \in {"SaveWrite", "SaveClose"} /\ last'.io = "ok") =>
              file' = file]_vars

C4_Witness ==
    /\ SaveEnded
    /\ last.via = "save"
    /\ last.ended = "returned"
    /\ last.io = "ok"
    /\ GetLastUpdated(state[1], "kml") = TimeOf(2)
    /\ GetLastUpdated(state[1], "pdf") = TimeOf(1)
    /\ FreshLastUpdated(file, "kml") = TimeOf(2)
    /\ FreshLastUpdated(file, "pdf") = TimeOf(1)

\* C5: load returns normally, and when the file it found is missing, is not a
\* keyed record, cannot be parsed or cannot be read, getLastUpdated is none
\* for every channel when it has returned.
C5_LoadDegradesToEmpty ==
    (last.via = "load" /\ last.ended # "") =>
        /\ last.ended = "returned"
        /\ (last.found.kind \in {"missing", "text", "array"} \/ last.io # "ok") =>
               \A c \in OutputType : GetLastUpdated(state[1], c) = Undefined

C5_Witness ==
    /\ last.op = "LoadReadJson"
    /\ last.ended = "returned"
    /\ last.io = "read"
    /\ FreshLastUpdated(last.found, "kml").kind = "ts"
    /\ GetLastUpdated(state[1], "kml") = Undefined

\* C6: a save in which opening the writer, writing or closing fails ends in
\* an error, and so does an updateLastUpdated with activities whose save
\* fails.
C6_SaveFailurePropagates ==
    (SaveEnded /\ last.io \in {"open", "write", "close"}) => last.ended = "threw"

C6_Witness ==
    /\ SaveEnded
    /\ last.op = "SaveCleanup"
    /\ last.via = "update"
    /\ last.io = "close"
    /\ last.ended = "threw"

\* C7: getDateRangeFrom(c) is none when c has no stored timestamp, and
\* otherwise, whatever the host timezone, the open-ended range from the
\* calendar date written in the stored timestamp.
C7_RangeFromWrittenDate ==
    last.op = "GetDateRangeFrom" =>
        /\ GetLastUpdated(state[1], last.type).kind = "none" => last.range = NoRange
        /\ GetLastUpdated(state[1], last.type).kind = "ts" =>
               last.range = FromDateRange(GetLastUpdated(state[1], last.type).day)

\* C8: after a save that returned, the writer having replaced the content of
\* the file, every channel entry of the persisted record is absent or carries
\* a lastUpdated that is a timestamp.
C8_PersistedEntriesHaveTimestamps ==
    (SaveEnded /\ last.ended = "returned" /\ last.io = "ok") =>
        /\ file.kind = "dict"
        /\ \A c \in OutputType :
               ParseDict(file.pairs)[c].present =>
                   ParseDict(file.pairs)[c].lastUpdated.kind = "ts"

\* a step changes the watermark of channel c
Changes(c) == GetLastUpdated(state'[1], c) # GetLastUpdated(state[1], c)

\* the step is the call of updateLastUpdated(c, activities) with activities,
\* and leaves the latest start among them as the watermark of c
ByUpdate(c) ==
    /\ last'.op = "UpdateLastUpdated"
    /\ last'.type = c
    /\ last'.pick # 0
    /\ GetLastUpdated(state'[1], c) = last'.newest
    /\ last'.newest.kind = "ts"

\* C9 as stated: on one StateFile, the watermark of a channel changes only by
\* updateLastUpdated on that channel with activities, to the latest start
\* among them; no other call changes the state.
C9_OnlyUpdateMutates ==
    [][last'.op # "new" =>
          /\ \A c \in OutputType : Changes(c) => ByUpdate(c)
          /\ state' # state => (last'.op = "UpdateLastUpdated" /\ last'.pick # 0)]_vars

\* C9 amended: on one StateFile, the watermark of a channel changes only by
\* load or by updateLastUpdated on that channel with activities; a change by
\* updateLastUpdated is to the latest start among the activities, so only
\* load returns a present watermark to absent; no other call changes the
\* state.
C9_OnlyLoadAndUpdateMutate ==
    [][last'.op # "new" =>
          /\ \A c \in OutputType :
                 Changes(c) => ((last'.via = "load" /\ last'.ended # "") \/ ByUpdate(c))
          /\ state' # state =>
                 \/ last'.via = "load" /\ last'.ended # ""
                 \/ last'.op = "UpdateLastUpdated" /\ last'.pick # 0]_vars

C9_Witness ==
    /\ last.op = "UpdateLastUpdated"
    /\ last.type = "kml"
    /\ last.newest = TimeOf(1)
    /\ GetLastUpdated(state[1], "kml") = TimeOf(1)
    /\ GetLastUpdated(state[1], "pdf") = TimeOf(1)
    /\ FreshLastUpdated(file, "kml") = TimeOf(2)

\* the step calls getPdf in a run of the handler without --date
CallsGetPdf ==
    /\ handler[1].pc \in {"init", "athlete"}
    /\ handler'[1].pc = "getPdf"
    /\ ~handler'[1].date

\* C10: a run of the pdf command without --date that finds a pdf watermark
\* when it reads the state (line 75) hands getPdf the range after the instant
\* of that watermark, with no end: no start at or before the watermark is in
\* it and every later start is; a run that finds no watermark (none, or the
\* empty string) exits once the app is initialised, and getPdf is not invoked
\* by a run that read no watermark.
C10_PdfRangeAfterWatermark ==
    [][/\ (/\ last'.op = "PdfInit"
           /\ handler[1].initOk
           /\ ~handler[1].date
           /\ Falsy(GetLastUpdated(state[1], "pdf"))) =>
              /\ last'.ended = "exit"
              /\ ~Running(1)'
       /\ (last'.op = "PdfInit" /\ CallsGetPdf) =>
              handler'[1].lastUpdated = GetLastUpdated(state[1], "pdf")
       /\ CallsGetPdf =>
              /\ ~Falsy(handler'[1].lastUpdated)
              /\ handler'[1].lastUpdated.kind = "ts" =>
                     /\ handler'[1].range
                            = AfterRange(NewDate(handler'[1].lastUpdated,
                                                 handler'[1].tz, handler'[1].utc))
                     /\ \A t \in Timestamps :
                            InRange(handler'[1].range,
                                    NewDate(t, handler'[1].tz, handler'[1].utc))
                                <=> LocalMinutes(t)
                                        > LocalMinutes(handler'[1].lastUpdated)]_vars

C10_Witness ==
    /\ handler[1].pc = "getPdf"
    /\ ~handler[1].date
    /\ handler[1].lastUpdated = TimeOf(1)
    /\ GetLastUpdated(state[1], "pdf") = TimeOf(1)
    /\ InRange(handler[1].range, NewDate(TimeOf(2), handler[1].tz, handler[1].utc))
    /\ ~InRange(handler[1].range, NewDate(TimeOf(1), handler[1].tz, handler[1].utc))

\* updateLastUpdated was called with activities that all started before the
\* watermark the channel had
AllOlder ==
    /\ last.via = "update"
    /\ hist.acts # <<>>
    /\ hist.was.kind = "ts"
    /\ \A i \in 1..Len(hist.acts) :
           LocalMinutes(hist.acts[i]) < LocalMinutes(hist.was)

\* C11: updateLastUpdated(c, activities) with activities that all start
\* before the watermark t of c moves the watermark back to the latest start
\* t' < t among them, and a save that returns, the writer having replaced the
\* content of the file, has persisted t'.
C11_WatermarkRegresses ==
    AllOlder =>
        /\ GetLastUpdated(state[1], hist.type) = Newest(hist.acts)
        /\ LocalMinutes(GetLastUpdated(state[1], hist.type)) < LocalMinutes(hist.was)
        /\ (last.ended = "returned" /\ last.io = "ok") =>
               FreshLastUpdated(file, hist.type) = Newest(hist.acts)

C11_Witness ==
    /\ AllOlder
    /\ last.ended = "returned"
    /\ last.io = "ok"
    /\ hist.was = TimeOf(2)
    /\ GetLastUpdated(state[1], hist.type) = TimeOf(1)
    /\ FreshLastUpdated(file, hist.type) = TimeOf(1)

\* C13: when the save inside updateLastUpdated(c, activities) fails,
\* getLastUpdated(c) still returns what it returned before the call.
C13_FailedSaveKeepsWatermark ==
    (SaveEnded /\ last.ended = "threw") =>
        GetLastUpdated(state[1], hist.type) = hist.was

\* a fresh load from the backing file would report the in-memory lastUpdated
\* of every channel
InStep ==
    \A c \in OutputType : FreshLastUpdated(file, c) = GetLastUpdated(state[1], c)

\* no call of the process is in flight
Quiet == ~LoadInFlight(1) /\ ~SaveInFlight(1)

\* C12 as stated: after any sequence of load and updateLastUpdated calls
\* that each complete without error, a fresh load from the backing file
\* would yield the in-memory lastUpdated of every channel.
C12_MemoryAndFileInStep ==
    (last.op # "new" /\ Quiet /\ hist.run # "broken") => InStep

\* C12 amended: the same, for a sequence in which some call is a load or an
\* updateLastUpdated with activities, and in which the I/O of no call met a
\* fault.
C12_InStepOnceLoadedOrSaved ==
    (Quiet /\ hist.run = "insync") => InStep

C12_Witness ==
    /\ SaveEnded
    /\ last.via = "update"
    /\ Quiet
    /\ hist.run = "insync"
    /\ GetLastUpdated(state[1], "kml") = TimeOf(2)
    /\ GetLastUpdated(state[1], "pdf") = TimeOf(1)
    /\ InStep

\* C14: at every point of a save over a valid record, also of one in which no
\* call of the writer fails, the backing file holds the previous record in
\* full or the new record in full.
C14_SaveIsCrashSafe ==
    (last.via = "update" /\ last.pick # 0 /\ last.io = "ok"
        /\ hist.old.kind = "dict") =>
        (file = hist.old \/ file = DictFile(state[1]))

\* both processes had loaded when the first updateLastUpdated began, and both
\* calls of updateLastUpdated have returned
Raced ==
    /\ hist.early
    /\ \A p \in Procs : hist.phase[p] = "updated"

\* C15: when two processes load the file before either saves and then update
\* different channels, both successfully, the file is the in-memory state of
\* the process that wrote last, and the channel of the other process is in the
\* file as that process loaded it, without its update.
C15_LastWriterWins ==
    Raced =>
        /\ file = DictFile(state[hist.writer])
        /\ LET q == 3 - hist.writer
           IN  FreshLastUpdated(file, Channel(q))
                   = FreshLastUpdated(hist.old[q], Channel(q))

C15_Witness ==
    /\ Raced
    /\ hist.writer = 2
    /\ GetLastUpdated(state[1], "kml") = TimeOf(2)
    /\ GetLastUpdated(state[2], "pdf") = TimeOf(1)
    /\ FreshLastUpdated(file, "kml") = Undefined
    /\ FreshLastUpdated(file, "pdf") = TimeOf(1)

\* the member of a keyed record for the key that is neither kml nor pdf
OtherKey == <<"other", {}>>

\* the file f without that key
WithoutOther(f) == [f EXCEPT !.pairs = @ \ {OtherKey}]

\* C16: load of a keyed record that has a key besides kml and pdf gives the
\* getLastUpdated results of the record without that key and keeps the key
\* in memory, and the save of an updateLastUpdated writes the key back.
C16_UnknownKeysPreserved ==
    [][/\ (/\ last'.op = "LoadReadJson"
           /\ last'.io = "ok"
           /\ OtherKey \in last'.found.pairs) =>
              /\ \A c \in OutputType :
                     GetLastUpdated(state'[1], c)
                         = FreshLastUpdated(WithoutOther(last'.found), c)
              /\ state'[1].other
       /\ (/\ last'.op = "SaveWriter"
           /\ last'.via = "update"
           /\ last'.io = "ok"
           /\ state[1].other) =>
              OtherKey \in file'.pairs]_vars

C16_Witness ==
    /\ SaveEnded
    /\ last.via = "update"
    /\ last.type = "kml"
    /\ last.ended = "returned"
    /\ last.io = "ok"
    /\ state[1].other
    /\ OtherKey \in file.pairs
    /\ FreshLastUpdated(file, "kml") = TimeOf(1)
    /\ FreshLastUpdated(file, "pdf") = TimeOf(2)

====
